---- MODULE Spec2Model ----
(***************************************************************************)
(* Model of the portfolio backend: configuration loading, the resume       *)
(* store, the OpenRouter client, the chat-log sink and the three HTTP      *)
(* routes (GET /resume, GET|HEAD /health, POST /chat).                     *)
(*                                                                         *)
(* Text is modelled as a sequence of one-character strings so that         *)
(* str.strip() and str.split(",") are computed, not assumed.               *)
(***************************************************************************)
EXTENDS Integers, Sequences, FiniteSets, TLC

VARIABLES
    file,            \* data/resume.json on disk: 0 = absent, i = holds ResumeDocs[i]
    fileChanges,     \* number of times the file was changed on disk so far
    apiKey,          \* OPENROUTER_API_KEY as bound at import time
    tableExists,     \* whether the chat_logs table exists in the database
    lifespanRan,     \* whether the lifespan startup block has run
    dbEmptyAtStart,  \* whether the database had no tables when the process started
    chat_logs,       \* rows of the chat_logs table, in insertion order
    uuidCount,       \* number of uuid.uuid4() calls made so far
    outbound,        \* number of POSTs sent to the external chat-completion API
    alive,           \* the server process is running
    req,             \* per request: inputs, position in the handler, response
    rawOrigins,      \* value of the ALLOWED_ORIGINS environment variable
    ALLOWED_ORIGINS, \* the CORS allow-list computed by config/settings.py
    settingsLoaded   \* whether config/settings.py has been imported

vars == << file, fileChanges, apiKey, tableExists, lifespanRan,
           dbEmptyAtStart, chat_logs,
           uuidCount, outbound, alive, req, rawOrigins, ALLOWED_ORIGINS,
           settingsLoaded >>

serverVars == << file, fileChanges, apiKey, tableExists, lifespanRan,
                 dbEmptyAtStart, chat_logs, uuidCount, outbound, alive, req >>

settingsVars == << rawOrigins, ALLOWED_ORIGINS, settingsLoaded >>

(***************************************************************************)
(* Bounds of the model.                                                    *)
(***************************************************************************)
MaxReqs == 2
MaxFileChanges == 1
MaxRawLen == 4

Reqs == 1..MaxReqs

(***************************************************************************)
(* Text helpers: Python's str.strip() and str.split(",").                  *)
(***************************************************************************)
IsSpace(c) == c \in {" ", "\t", "\n"}

RECURSIVE LStrip(_)
LStrip(s) ==
    IF s = << >> THEN << >>
    ELSE IF IsSpace(Head(s)) THEN LStrip(Tail(s)) ELSE s

RECURSIVE RStrip(_)
RStrip(s) ==
    IF s = << >> THEN << >>
    ELSE IF IsSpace(s[Len(s)]) THEN RStrip(SubSeq(s, 1, Len(s) - 1)) ELSE s

Strip(s) == RStrip(LStrip(s))

\* s.split(sep): always at least one segment; the empty string gives [""].
RECURSIVE SplitFrom(_, _, _)
SplitFrom(s, sep, cur) ==
    IF s = << >> THEN << cur >>
    ELSE IF Head(s) = sep THEN << cur >> \o SplitFrom(Tail(s), sep, << >>)
    ELSE SplitFrom(Tail(s), sep, Append(cur, Head(s)))

Split(s, sep) == SplitFrom(s, sep, << >>)

(***************************************************************************)
(* config/settings.py: the CORS allow-list.                                *)
(*   ALLOWED_ORIGINS = [o.strip() for o in _raw_origins.split(",")]        *)
(***************************************************************************)
AllowedOrigins(raw) ==
    LET segs == Split(raw, ",")
    IN  [i \in 1..Len(segs) |-> Strip(segs[i])]

\* Stand-in for the default "http://localhost:5173,http://localhost:3000".
DefaultRawOrigins == << "a", ",", "b" >>

OriginChars == {"a", ",", " "}

RECURSIVE RawStringsOfLen(_)
RawStringsOfLen(n) ==
    IF n = 0 THEN { << >> }
    ELSE { Append(s, c) : s \in RawStringsOfLen(n - 1), c \in OriginChars }

RawStrings == UNION { RawStringsOfLen(n) : n \in 0..MaxRawLen }

(***************************************************************************)
(* JSON values as decoded by response.json(), and Python's subscript and   *)
(* attribute semantics on them.                                            *)
(***************************************************************************)
JNull    == [t |-> "null"]
JNum(n)  == [t |-> "num", v |-> n]
JStr(s)  == [t |-> "str", v |-> s]
JList(l) == [t |-> "list", v |-> l]
JDict(d) == [t |-> "dict", v |-> d]

Ok(x)     == [exc |-> "none", val |-> x]
Raise(e)  == [exc |-> e, val |-> JNull]

\* x[key] for a string key.
GetItemKey(x, key) ==
    IF x.t = "dict"
    THEN IF key \in DOMAIN x.v THEN Ok(x.v[key]) ELSE Raise("KeyError")
    ELSE Raise("TypeError")

\* x[i] for a zero-based integer index.
GetItemIdx(x, i) ==
    CASE x.t = "dict" -> Raise("KeyError")
      [] x.t = "list" -> IF i < Len(x.v) THEN Ok(x.v[i + 1]) ELSE Raise("IndexError")
      [] x.t = "str"  -> IF i < Len(x.v) THEN Ok(JStr(<< x.v[i + 1] >>)) ELSE Raise("IndexError")
      [] OTHER        -> Raise("TypeError")

\* x.strip(): only str has the method.
CallStrip(x) ==
    IF x.t = "str" THEN Ok(JStr(Strip(x.v))) ELSE Raise("AttributeError")

\* Exception classes caught by `except (KeyError, IndexError)`.
ShapeErrors == {"KeyError", "IndexError"}

\* Exception classes that are ValueError or a subclass of it.
ValueErrors == {"ValueError", "JSONDecodeError"}

\* try: return data["choices"][0]["message"]["content"].strip()
\* except (KeyError, IndexError): raise ValueError(...)
ExtractReply(data) ==
    LET a == GetItemKey(data, "choices")
        b == IF a.exc = "none" THEN GetItemIdx(a.val, 0) ELSE a
        c == IF b.exc = "none" THEN GetItemKey(b.val, "message") ELSE b
        d == IF c.exc = "none" THEN GetItemKey(c.val, "content") ELSE c
        e == IF d.exc = "none" THEN CallStrip(d.val) ELSE d
    IN  IF e.exc \in ShapeErrors THEN Raise("ValueError") ELSE e

\* httpx Response.raise_for_status(): raises unless the status is 2xx.
IsSuccess(status) == status >= 200 /\ status <= 299

\* What the external API may send back.  body = 0 is a body that is not
\* JSON; otherwise body indexes LLMBodies.
Reply1 == << " ", "h", "i", "\n" >>
Reply2 == << "o", "k" >>

Choice(msg) == JDict([message |-> msg])
Body(choices) == JDict([choices |-> choices])

LLMBodies == <<
    Body(JList(<< Choice(JDict([content |-> JStr(Reply1)])) >>)),
    Body(JList(<< Choice(JDict([content |-> JStr(Reply2)])) >>)),
    JDict([error |-> JStr(<< "x" >>)]),
    Body(JList(<< >>)),
    Body(JNull),
    Body(JStr(<< "x" >>)),
    Body(JDict([error |-> JNull])),
    Body(JList(<< JDict([index |-> JNum(0)]) >>)),
    Body(JList(<< Choice(JNull) >>)),
    Body(JList(<< Choice(JDict([role |-> JStr(<< "x" >>)])) >>)),
    Body(JList(<< Choice(JDict([content |-> JNull])) >>)),
    Body(JList(<< Choice(JDict([content |-> JNum(7)])) >>)),
    JList(<< >>)
>>

LLMStatuses == {200, 429, 500}

\* OpenRouterService.chat after the request was sent: net = FALSE is a
\* transport failure (timeout, connection error) raised by client.post.
OpenRouterChat(net, status, body) ==
    IF ~net THEN Raise("TransportError")
    ELSE IF ~IsSuccess(status) THEN Raise("HTTPStatusError")
    ELSE IF body = 0 THEN Raise("JSONDecodeError")
    ELSE ExtractReply(LLMBodies[body])

\* Variant: the constructor stores the key without checking it.
OpenRouterInitUnchecked(key) == "none"

\* OpenRouterService.__init__: `if not api_key: raise ValueError(...)`.
OpenRouterInit(key) ==
    IF key = "" THEN "ValueError" ELSE "none"

ApiKeys == {"", "sk-1"}

(***************************************************************************)
(* services/resume.py: the resume store.                                   *)
(***************************************************************************)
ResumeDocs == <<
    [personal |-> [name |-> "Asha"], ai_context |-> "hobbies: chess"],
    [education |-> "BE", ai_context |-> "hobbies: tea"]
>>

FileStates == 0..Len(ResumeDocs)

\* ResumeService._load: FileNotFoundError if the path does not exist,
\* otherwise the parsed document (identified by its index).
ResumeLoad(f) ==
    IF f = 0 THEN [exc |-> "FileNotFoundError", data |-> 0]
    ELSE [exc |-> "none", data |-> f]

\* Variant: get_all returns only the documented sections.
GetAllCurated(data) ==
    [k \in DOMAIN ResumeDocs[data] \ {"ai_context"} |-> ResumeDocs[data][k]]

\* ResumeService.get_all: return self._data.
GetAll(data) == ResumeDocs[data]

\* resume_data.get("personal", {}).get("name", "Rohit")
CandidateName(doc) ==
    IF "personal" \in DOMAIN doc
    THEN IF "name" \in DOMAIN doc.personal THEN doc.personal.name ELSE "Rohit"
    ELSE "Rohit"

(***************************************************************************)
(* routes/chat.py: request schema.                                         *)
(***************************************************************************)
MIN_LENGTH == 1
MAX_LENGTH == 2000

\* Candidate message bodies, by text and length in characters.
Messages == <<
    [text |-> "", len |-> 0],
    [text |-> "hi?", len |-> 3],
    [text |-> "long", len |-> 2000],
    [text |-> "toolong", len |-> 2001]
>>

\* Field(..., min_length=1, max_length=2000)
MessageValid(m) == m.len >= MIN_LENGTH /\ m.len <= MAX_LENGTH

\* str(uuid.uuid4()): the n-th call of the process returns a token that no
\* earlier call returned.
UuidPool == << "u1", "u2", "u3", "u4", "u5", "u6" >>
Uuid4(n) == UuidPool[n]

\* Session ids a client may send.
ClientSids == {"s1"}

\* Variant: `default=str(uuid.uuid4())`, evaluated once when the class is
\* defined instead of once per request.
SessionIdEvaluatedOnce(supplied, sidIn, count) ==
    IF supplied THEN [sid |-> sidIn, count |-> count]
    ELSE [sid |-> Uuid4(1), count |-> count]

\* session_id: default_factory=lambda: str(uuid.uuid4()); a supplied value
\* is kept as is.  count is the number of uuid4() calls made before.
SessionId(supplied, sidIn, count) ==
    IF supplied THEN [sid |-> sidIn, count |-> count]
    ELSE [sid |-> Uuid4(count + 1), count |-> count + 1]

(***************************************************************************)
(* Routes and the dependencies their handlers declare with Depends().      *)
(***************************************************************************)
Routes == {"GET /resume", "GET /health", "HEAD /health", "POST /chat"}

\* Variant: health_check also declares Depends(get_resume_service).
DepsHealthNeedsResume(kind) ==
    CASE kind = "POST /chat"   -> << "resume", "llm" >>
      [] OTHER                 -> << "resume" >>

Deps(kind) ==
    CASE kind = "POST /chat"   -> << "resume", "llm" >>
      [] kind = "GET /resume"  -> << "resume" >>
      [] OTHER                 -> << >>

\* health_check(): return {"status": "ok"}
HealthBody == [status |-> "ok"]

NoBody == [detail |-> "none"]
ErrorBody(d) == [detail |-> d]

\* Exception classes caught by `except SQLAlchemyError` around the insert.
SQLAlchemyErrors == {"OperationalError", "ProgrammingError", "DataError"}

LogCatches(e) == e \in SQLAlchemyErrors

\* What engine.connect() / execute / commit may do: succeed, raise an error
\* of the SQLAlchemyError hierarchy, or let a driver exception that is not a
\* DBAPI error through unwrapped.
DbOutcomes == {"ok", "OperationalError", "ValueError"}

NoReq == [kind |-> "none", pc |-> "idle", dep |-> 0, built |-> {},
          msg |-> 0, supplied |-> FALSE, sidIn |-> "", sid |-> "",
          data |-> 0, depExc |-> "none", llmCase |-> "none",
          llmExc |-> "none", reply |-> << >>, logExc |-> "none",
          sent |-> 0, promptName |-> "", promptDoc |-> 0, fileSeen |-> -1,
          logTried |-> FALSE, status |-> 0, body |-> NoBody,
          after500 |-> FALSE]

\* Which of the response shapes a reply from the external API falls in:
\* "absent" is a success status whose JSON has no text at
\* choices[0].message.content because choices is missing, empty, null or
\* not a list, or message is missing or null, or content is missing or null.
HasKey(x, k) == x.t = "dict" /\ k \in DOMAIN x.v

MessageLacksContent(m) ==
    \/ m.t = "null"
    \/ m.t = "dict" /\ ~HasKey(m, "content")
    \/ m.t = "dict" /\ HasKey(m, "content") /\ m.v.content.t = "null"

ChoiceLacksContent(c) ==
    c.t = "dict" /\ (~HasKey(c, "message") \/ MessageLacksContent(c.v.message))

ContentAbsent(data) ==
    /\ data.t = "dict"
    /\ \/ ~HasKey(data, "choices")
       \/ HasKey(data, "choices") /\ data.v.choices.t # "list"
       \/ HasKey(data, "choices") /\ data.v.choices.t = "list"
            /\ Len(data.v.choices.v) = 0
       \/ HasKey(data, "choices") /\ data.v.choices.t = "list"
            /\ Len(data.v.choices.v) > 0
            /\ ChoiceLacksContent(data.v.choices.v[1])

ContentPresent(data) ==
    /\ HasKey(data, "choices") /\ data.v.choices.t = "list"
    /\ Len(data.v.choices.v) > 0
    /\ HasKey(data.v.choices.v[1], "message")
    /\ HasKey(data.v.choices.v[1].v.message, "content")
    /\ data.v.choices.v[1].v.message.v.content.t = "str"

ResponseCase(net, status, body) ==
    CASE ~net                               -> "transport"
      [] net /\ ~IsSuccess(status)          -> "status"
      [] net /\ IsSuccess(status) /\ body = 0 -> "notjson"
      [] OTHER ->
            IF ContentAbsent(LLMBodies[body]) THEN "absent"
            ELSE IF ContentPresent(LLMBodies[body]) THEN "present"
            ELSE "other"

(***************************************************************************)
(* Initial state: the process has imported its modules (settings read,     *)
(* engine and app objects built) and has not yet run the lifespan block.   *)
(***************************************************************************)
ServerInit ==
    /\ file \in FileStates
    /\ fileChanges = 0
    /\ apiKey \in ApiKeys
    /\ tableExists \in BOOLEAN
    /\ dbEmptyAtStart = ~tableExists
    /\ lifespanRan = FALSE
    /\ chat_logs = << >>
    /\ uuidCount = 0
    /\ outbound = 0
    /\ alive = TRUE
    /\ req = [r \in Reqs |-> NoReq]

Init ==
    /\ ServerInit
    /\ rawOrigins = DefaultRawOrigins
    /\ ALLOWED_ORIGINS = AllowedOrigins(DefaultRawOrigins)
    /\ settingsLoaded = TRUE

\* models/database.py create_tables(), when the coroutine is run:
\* metadata.create_all(engine) creates chat_logs if it does not exist.
CreateTables(exists) == TRUE

(***************************************************************************)
(* main.py lifespan: `create_tables()` is called without `await`, so the   *)
(* coroutine object is created and dropped; metadata.create_all never      *)
(* runs and the schema is left as it was.                                  *)
(***************************************************************************)
Lifespan ==
    /\ alive
    /\ ~lifespanRan
    /\ lifespanRan' = TRUE
    /\ UNCHANGED << file, fileChanges, apiKey, tableExists, chat_logs,
                    uuidCount, outbound, alive, req >>
    /\ UNCHANGED << dbEmptyAtStart, settingsVars >>

\* The resume file is replaced or removed on disk by something outside the
\* process.
ChangeFile(f) ==
    /\ fileChanges < MaxFileChanges
    /\ f # file
    /\ file' = f
    /\ fileChanges' = fileChanges + 1
    /\ UNCHANGED << apiKey, tableExists, lifespanRan, chat_logs, uuidCount,
                    outbound, alive, req >>
    /\ UNCHANGED << dbEmptyAtStart, settingsVars >>

\* The response to a request whose dependency or handler raised an
\* exception nothing catches: the server answers 500 and keeps running.
Unhandled(q) ==
    [q EXCEPT !.pc = "done", !.status = 500,
              !.body = ErrorBody("Internal Server Error")]

\* A request for one of the routes arrives.
Arrive(r, kind, m, supplied, sidIn) ==
    /\ alive /\ lifespanRan
    /\ req[r].kind = "none"
    /\ \A q \in Reqs : q < r => req[q].kind # "none"
    /\ kind = "POST /chat" \/ (m = 0 /\ ~supplied /\ sidIn = "")
    /\ kind # "POST /chat" \/ (m > 0 /\ (supplied <=> sidIn # ""))
    /\ req' = [req EXCEPT ![r] =
                 [NoReq EXCEPT !.kind = kind, !.pc = "deps", !.msg = m,
                               !.supplied = supplied, !.sidIn = sidIn,
                               !.after500 = \E q \in Reqs :
                                    req[q].pc = "done" /\ req[q].status = 500]]
    /\ UNCHANGED << file, fileChanges, apiKey, tableExists, lifespanRan,
                    chat_logs, uuidCount, outbound, alive >>
    /\ UNCHANGED << dbEmptyAtStart, settingsVars >>

NextDep(q) ==
    IF q.dep < Len(Deps(q.kind)) THEN Deps(q.kind)[q.dep + 1] ELSE "none"

\* get_resume_service(): return ResumeService() -- a new instance, which
\* reads the file in its constructor.
DepResume(r) ==
    /\ alive
    /\ req[r].pc = "deps"
    /\ NextDep(req[r]) = "resume"
    /\ LET res == ResumeLoad(file)
       IN  req' = [req EXCEPT ![r] =
                IF res.exc = "none"
                THEN [@ EXCEPT !.dep = @ + 1, !.data = res.data,
                               !.fileSeen = file,
                               !.built = @ \cup {"resume"}]
                ELSE Unhandled([@ EXCEPT !.depExc = res.exc,
                                         !.fileSeen = file])]
    /\ UNCHANGED << file, fileChanges, apiKey, tableExists, lifespanRan,
                    chat_logs, uuidCount, outbound, alive >>
    /\ UNCHANGED << dbEmptyAtStart, settingsVars >>

\* get_openrouter_service(): return OpenRouterService()
DepLLM(r) ==
    /\ alive
    /\ req[r].pc = "deps"
    /\ NextDep(req[r]) = "llm"
    /\ LET e == OpenRouterInit(apiKey)
       IN  req' = [req EXCEPT ![r] =
                IF e = "none"
                THEN [@ EXCEPT !.dep = @ + 1, !.built = @ \cup {"llm"}]
                ELSE Unhandled([@ EXCEPT !.depExc = e])]
    /\ UNCHANGED << file, fileChanges, apiKey, tableExists, lifespanRan,
                    chat_logs, uuidCount, outbound, alive >>
    /\ UNCHANGED << dbEmptyAtStart, settingsVars >>

\* Body validation, which the framework runs once every dependency of the
\* route has been resolved: ChatRequest(message, session_id).
ChatValidate(r) ==
    /\ alive
    /\ req[r].pc = "deps"
    /\ req[r].kind = "POST /chat"
    /\ NextDep(req[r]) = "none"
    /\ LET s == SessionId(req[r].supplied, req[r].sidIn, uuidCount)
       IN  /\ uuidCount' = s.count
           /\ req' = [req EXCEPT ![r] =
                  IF MessageValid(Messages[req[r].msg])
                  THEN [@ EXCEPT !.pc = "handler", !.sid = s.sid]
                  ELSE [@ EXCEPT !.pc = "done", !.status = 422,
                                 !.body = ErrorBody("validation error")]]
    /\ UNCHANGED << file, fileChanges, apiKey, tableExists, lifespanRan,
                    chat_logs, outbound, alive >>
    /\ UNCHANGED << dbEmptyAtStart, settingsVars >>

\* chat(), steps 1 and 2 up to the await: take the document from the
\* injected ResumeService, build the prompt, send one POST.
ChatSend(r) ==
    /\ alive
    /\ req[r].pc = "handler"
    /\ req[r].kind = "POST /chat"
    /\ req' = [req EXCEPT ![r] =
                 [@ EXCEPT !.pc = "await_llm", !.sent = @ + 1,
                           !.promptName = CandidateName(GetAll(req[r].data)),
                           !.promptDoc = req[r].data]]
    /\ outbound' = outbound + 1
    /\ UNCHANGED << file, fileChanges, apiKey, tableExists, lifespanRan,
                    chat_logs, uuidCount, alive >>
    /\ UNCHANGED << dbEmptyAtStart, settingsVars >>

\* Variant: `except (httpx.HTTPStatusError, ValueError)`, the two classes
\* the docstring of OpenRouterService.chat lists.
ChatCatchesDocumented(e) == e \in {"HTTPStatusError"} \cup ValueErrors

\* `except Exception as exc` around `await llm_svc.chat(...)`: every
\* exception class the call can raise derives from Exception.
ChatCatches(e) == TRUE

\* Variant: a failed call is sent again instead of being reported.
LLMRespondRetrying(r, net, status, body) ==
    /\ alive
    /\ req[r].pc = "await_llm"
    /\ ~net => status = 200
    /\ (~net \/ ~IsSuccess(status)) => body = 0
    /\ LET res == OpenRouterChat(net, status, body)
       IN  req' = [req EXCEPT ![r] =
                IF res.exc = "none"
                THEN [@ EXCEPT !.pc = "log", !.reply = res.val.v,
                               !.llmCase = ResponseCase(net, status, body)]
                ELSE [@ EXCEPT !.pc = "handler", !.llmExc = res.exc,
                               !.llmCase = ResponseCase(net, status, body)]]
    /\ UNCHANGED << file, fileChanges, apiKey, tableExists, lifespanRan,
                    chat_logs, uuidCount, outbound, alive >>
    /\ UNCHANGED << dbEmptyAtStart, settingsVars >>

\* The outbound call returns or fails; a caught failure of llm_svc.chat
\* becomes a 502.
LLMRespond(r, net, status, body) ==
    /\ alive
    /\ req[r].pc = "await_llm"
    /\ ~net => status = 200
    /\ (~net \/ ~IsSuccess(status)) => body = 0
    /\ LET res == OpenRouterChat(net, status, body)
       IN  req' = [req EXCEPT ![r] =
                IF res.exc = "none"
                THEN [@ EXCEPT !.pc = "log", !.reply = res.val.v,
                               !.llmCase = ResponseCase(net, status, body)]
                ELSE IF ChatCatches(res.exc)
                THEN [@ EXCEPT !.pc = "done", !.status = 502,
                               !.llmExc = res.exc,
                               !.llmCase = ResponseCase(net, status, body),
                               !.body = ErrorBody("LLM service error")]
                ELSE Unhandled([@ EXCEPT !.llmExc = res.exc,
                               !.llmCase = ResponseCase(net, status, body)])]
    /\ UNCHANGED << file, fileChanges, apiKey, tableExists, lifespanRan,
                    chat_logs, uuidCount, outbound, alive >>
    /\ UNCHANGED << dbEmptyAtStart, settingsVars >>

\* chat(), step 3 and 4: the insert into chat_logs inside
\* `try ... except SQLAlchemyError: pass`, then the ChatResponse.
LogAndReturn(r, out) ==
    /\ alive
    /\ req[r].pc = "log"
    /\ out = "ok" => tableExists
    /\ chat_logs' =
          IF out = "ok"
          THEN Append(chat_logs, [session_id |-> req[r].sid,
                                  user_message |-> Messages[req[r].msg].text,
                                  ai_response |-> req[r].reply])
          ELSE chat_logs
    /\ req' = [req EXCEPT ![r] =
                 IF out = "ok" \/ LogCatches(out)
                 THEN [@ EXCEPT !.pc = "done", !.status = 200,
                                !.logTried = TRUE,
                                !.logExc = IF out = "ok" THEN "none" ELSE out,
                                !.body = [reply |-> req[r].reply,
                                          session_id |-> req[r].sid]]
                 ELSE Unhandled([@ EXCEPT !.logExc = out, !.logTried = TRUE])]
    /\ UNCHANGED << file, fileChanges, apiKey, tableExists, lifespanRan,
                    uuidCount, outbound, alive >>
    /\ UNCHANGED << dbEmptyAtStart, settingsVars >>

\* get_resume(): return resume_svc.get_all()
GetResume(r) ==
    /\ alive
    /\ req[r].pc = "deps"
    /\ req[r].kind = "GET /resume"
    /\ NextDep(req[r]) = "none"
    /\ req' = [req EXCEPT ![r] =
                 [@ EXCEPT !.pc = "done", !.status = 200,
                           !.body = GetAll(req[r].data)]]
    /\ UNCHANGED << file, fileChanges, apiKey, tableExists, lifespanRan,
                    chat_logs, uuidCount, outbound, alive >>
    /\ UNCHANGED << dbEmptyAtStart, settingsVars >>

\* health_check()
HealthCheck(r) ==
    /\ alive
    /\ req[r].pc = "deps"
    /\ req[r].kind \in {"GET /health", "HEAD /health"}
    /\ NextDep(req[r]) = "none"
    /\ req' = [req EXCEPT ![r] =
                 [@ EXCEPT !.pc = "done", !.status = 200, !.body = HealthBody]]
    /\ UNCHANGED << file, fileChanges, apiKey, tableExists, lifespanRan,
                    chat_logs, uuidCount, outbound, alive >>
    /\ UNCHANGED << dbEmptyAtStart, settingsVars >>

Next ==
    \/ Lifespan
    \/ \E f \in FileStates : ChangeFile(f)
    \/ \E r \in Reqs, kind \in Routes, m \in 0..Len(Messages),
          supplied \in BOOLEAN, sidIn \in ClientSids \cup {""} :
            Arrive(r, kind, m, supplied, sidIn)
    \/ \E r \in Reqs : DepResume(r)
    \/ \E r \in Reqs : DepLLM(r)
    \/ \E r \in Reqs : ChatValidate(r)
    \/ \E r \in Reqs : ChatSend(r)
    \/ \E r \in Reqs, net \in BOOLEAN, status \in LLMStatuses,
          body \in 0..Len(LLMBodies) : LLMRespond(r, net, status, body)
    \/ \E r \in Reqs, out \in DbOutcomes : LogAndReturn(r, out)
    \/ \E r \in Reqs : GetResume(r)
    \/ \E r \in Reqs : HealthCheck(r)

Spec == Init /\ [][Next]_vars

(***************************************************************************)
(* Settings in isolation: the process is started with an arbitrary value   *)
(* of ALLOWED_ORIGINS and config/settings.py is imported.                  *)
(***************************************************************************)
InitSettings ==
    /\ ServerInit
    /\ rawOrigins \in RawStrings
    /\ ALLOWED_ORIGINS = << >>
    /\ settingsLoaded = FALSE

LoadSettings ==
    /\ ~settingsLoaded
    /\ ALLOWED_ORIGINS' = AllowedOrigins(rawOrigins)
    /\ settingsLoaded' = TRUE
    /\ UNCHANGED rawOrigins
    /\ UNCHANGED serverVars

NextSettings == LoadSettings

SpecSettings == InitSettings /\ [][NextSettings]_vars

(***************************************************************************)
(* Vocabulary of the properties.                                           *)
(***************************************************************************)
IsChat(r)   == req[r].kind = "POST /chat"
IsResume(r) == req[r].kind = "GET /resume"
IsHealth(r) == req[r].kind \in {"GET /health", "HEAD /health"}
Done(r)     == req[r].pc = "done"
Answered(r, code) == Done(r) /\ req[r].status = code

\* Requests whose LLM call returned a reply.
Replied == { r \in Reqs : IsChat(r) /\ req[r].pc \in {"log", "done"}
                          /\ req[r].llmCase = "present" }

\* C1: a POST /chat with a valid message that is answered 200 carries, when
\* the request had no session_id, a generated token that no other such
\* request received, and when it had one, exactly that string.
C1_SessionIdEchoedOrFresh ==
    \A r \in Reqs : (IsChat(r) /\ Answered(r, 200)) =>
        /\ MessageValid(Messages[req[r].msg])
        /\ req[r].supplied => req[r].body.session_id = req[r].sidIn
        /\ ~req[r].supplied =>
              /\ \E n \in 1..Len(UuidPool) : req[r].body.session_id = Uuid4(n)
              /\ \A q \in Reqs \ {r} :
                    (IsChat(q) /\ Answered(q, 200) /\ ~req[q].supplied)
                        => req[q].body.session_id # req[r].body.session_id

C1_Witness ==
    /\ \E r, q \in Reqs : r # q /\ IsChat(r) /\ IsChat(q)
          /\ Answered(r, 200) /\ Answered(q, 200)
          /\ ~req[r].supplied /\ ~req[q].supplied

\* C2: when the LLM call of a POST /chat fails (non-success status, or a
\* success whose body does not have the expected shape) the request is
\* answered 502 and no chat_logs row is written for it: the table never
\* holds more rows than there are requests whose LLM call returned a reply.
C2_LlmFailureIs502NoRow ==
    /\ \A r \in Reqs :
          (IsChat(r) /\ req[r].llmCase \in {"status", "notjson", "absent", "other"})
              => Answered(r, 502)
    /\ Len(chat_logs) <= Cardinality(Replied)

C2_Witness ==
    /\ \E r, q \in Reqs : r # q
          /\ req[r].llmCase = "status" /\ Answered(r, 502)
          /\ req[q].llmCase \in {"absent", "other"} /\ Answered(q, 502)
          /\ req[q].llmExc \notin ValueErrors
    /\ tableExists
    /\ chat_logs = << >>

\* C3: if the LLM call succeeded, any failure of the chat-log write is
\* absorbed: the request is answered 200 with the LLM's reply and the
\* request's session id.
C3_LogFailureAbsorbed ==
    \A r \in Reqs : (IsChat(r) /\ Done(r) /\ req[r].logExc # "none") =>
        /\ req[r].status = 200
        /\ req[r].body = [reply |-> req[r].reply, session_id |-> req[r].sid]

\* C4: whatever the state of the resume file, the API key, the database and
\* the other requests, a health request can be served at once and is
\* answered 200 with {"status": "ok"}.
C4_HealthAlwaysOk ==
    \A r \in Reqs : IsHealth(r) =>
        /\ ~Done(r) => ENABLED HealthCheck(r)
        /\ Done(r) => (req[r].status = 200 /\ req[r].body = HealthBody)

C4_Witness ==
    \E r, q \in Reqs :
        /\ IsHealth(r) /\ Answered(r, 200) /\ req[r].after500
        /\ Answered(q, 500)
        /\ file = 0 /\ apiKey = "" /\ ~tableExists

\* C5: GET /resume is answered either 200 with the whole document that was
\* in the file when the request read it, or, when the file was absent, 500
\* with no document; the process stays up.
C5_ResumeWholeOr500 ==
    /\ alive
    /\ \A r \in Reqs : (IsResume(r) /\ Done(r)) =>
          \/ /\ req[r].fileSeen > 0
             /\ req[r].status = 200
             /\ req[r].body = ResumeDocs[req[r].fileSeen]
          \/ /\ req[r].fileSeen = 0
             /\ req[r].status = 500
             /\ req[r].body = ErrorBody("Internal Server Error")

C5_Witness ==
    \E r, q \in Reqs :
        /\ IsResume(r) /\ Answered(r, 500) /\ req[r].fileSeen = 0
        /\ IsResume(q) /\ Answered(q, 200) /\ req[q].after500
        /\ "ai_context" \in DOMAIN req[q].body

\* C6: a POST /chat whose message is empty or longer than 2000 characters
\* is answered with a validation failure without any service having been
\* touched: no ResumeService and no OpenRouterService was constructed for
\* it, nothing was sent to the external API.
C6_InvalidRejectedBeforeServices ==
    \A r \in Reqs :
        (IsChat(r) /\ ~MessageValid(Messages[req[r].msg])) =>
            /\ req[r].built = {}
            /\ req[r].sent = 0
            /\ Done(r) => req[r].status = 422

\* C7: when the external API answers with a success status and no text at
\* choices[0].message.content, OpenRouterService.chat raises ValueError and
\* nothing else.
C7_MalformedRaisesValueError ==
    \A r \in Reqs : req[r].llmCase = "absent" => req[r].llmExc = "ValueError"

\* C8: with an empty API key no OpenRouterService is ever constructed and
\* nothing is sent to the external API; chat requests fail on the
\* constructor's ValueError, while the process stays up and GET /resume
\* (file present) and /health are answered 200.
C8_EmptyKeyConfinedToChat ==
    apiKey = "" =>
        /\ outbound = 0
        /\ alive
        /\ \A r \in Reqs :
              /\ IsChat(r) =>
                    /\ "llm" \notin req[r].built
                    /\ req[r].sent = 0
                    /\ req[r].status \notin {200, 502}
                    /\ (Done(r) /\ req[r].fileSeen > 0) =>
                          (req[r].depExc = "ValueError" /\ req[r].status = 500)
              /\ (IsResume(r) /\ Done(r) /\ req[r].fileSeen > 0)
                    => req[r].status = 200
              /\ (IsHealth(r) /\ Done(r)) => req[r].status = 200

C8_Witness ==
    /\ apiKey = ""
    /\ \E r, q \in Reqs :
          /\ IsChat(r) /\ Answered(r, 500) /\ req[r].depExc = "ValueError"
          /\ MessageValid(Messages[req[r].msg])
          /\ IsResume(q) /\ Answered(q, 200) /\ req[q].after500

\* C9: the resume document is read once per process: all requests that
\* needed the resume store got the same result, whatever happened to the
\* file in between.
ResolvedResume(r) == req[r].fileSeen >= 0

C9_ResumeReadOnce ==
    \A r, q \in Reqs : (ResolvedResume(r) /\ ResolvedResume(q)) =>
        /\ req[r].data = req[q].data
        /\ req[r].depExc = "FileNotFoundError"
              <=> req[q].depExc = "FileNotFoundError"

\* C10: for every value of ALLOWED_ORIGINS the allow-list is the
\* comma-separated segments, trimmed, without the segments that are empty
\* after trimming.
TrimmedSegments(raw) ==
    LET segs == Split(raw, ",")
    IN  [i \in 1..Len(segs) |-> Strip(segs[i])]

NonEmptySegment(s) == s # << >>

C10_OriginsTrimmedNonEmpty ==
    settingsLoaded =>
        ALLOWED_ORIGINS = SelectSeq(TrimmedSegments(rawOrigins), NonEmptySegment)

\* C11: once startup has completed against a database that was empty, the
\* chat_logs table exists and holds exactly one row per POST /chat answered
\* 200, carrying that request's session id, message and reply; rows are
\* only ever appended.
RowOf(r) ==
    [session_id |-> req[r].sid,
     user_message |-> Messages[req[r].msg].text,
     ai_response |-> req[r].reply]

Answered200 == { r \in Reqs : IsChat(r) /\ Answered(r, 200) }

OneRowPerAnswered200 ==
    \E f \in [1..Len(chat_logs) -> Reqs] :
        /\ \A i \in 1..Len(chat_logs) :
              f[i] \in Answered200 /\ chat_logs[i] = RowOf(f[i])
        /\ \A i, j \in 1..Len(chat_logs) : f[i] = f[j] => i = j
        /\ \A r \in Answered200 : \E i \in 1..Len(chat_logs) : f[i] = r

RowsOnlyAppended ==
    /\ Len(chat_logs') >= Len(chat_logs)
    /\ SubSeq(chat_logs', 1, Len(chat_logs)) = chat_logs

C11_TableCreatedOneRowPer200 ==
    /\ []((lifespanRan /\ dbEmptyAtStart) =>
            (tableExists /\ OneRowPerAnswered200))
    /\ [][RowsOnlyAppended]_vars

\* C12: a POST /chat that passed validation sends at most one request to
\* the external API, exactly one by the time it is answered, and never
\* another after the call has returned or failed; the resume document is in
\* hand before the call is sent, the chat-log write is attempted only once
\* the call has returned a reply, and a 200 is produced only after that
\* attempt has finished.
PassedValidation(r) ==
    /\ IsChat(r)
    /\ req[r].pc \in {"handler", "await_llm", "log", "done"}
    /\ req[r].depExc = "none"
    /\ req[r].status # 422

ChatStepsInOrder ==
    \A r \in Reqs : IsChat(r) =>
        /\ req[r].sent <= 1
        /\ (PassedValidation(r) /\ Done(r)) =>
              (req[r].sent = 1 /\ req[r].built = {"resume", "llm"})
        /\ req[r].sent > 0 =>
              /\ PassedValidation(r)
              /\ "resume" \in req[r].built
              /\ req[r].data > 0 /\ req[r].promptDoc = req[r].data
        /\ req[r].llmExc # "none" => (Done(r) /\ ~req[r].logTried)
        /\ req[r].logTried =>
              (req[r].sent = 1 /\ req[r].llmCase = "present")
        /\ Answered(r, 200) => req[r].logTried

NoResendNoEarlyWrite ==
    /\ outbound' <= outbound + 1
    /\ \A r \in Reqs :
          req[r].llmCase # "none" => req'[r].sent = req[r].sent
    /\ chat_logs' # chat_logs =>
          \E r \in Reqs : req[r].pc = "log" /\ req'[r].logTried

C12_OneCallStepsOrdered ==
    /\ []ChatStepsInOrder
    /\ [][NoResendNoEarlyWrite]_vars

C12_Witness ==
    \E r, q \in Reqs :
        /\ r # q
        /\ IsChat(r) /\ Answered(r, 502) /\ req[r].sent = 1
        /\ IsChat(q) /\ Answered(q, 200) /\ req[q].sent = 1
        /\ req[q].logExc # "none"
        /\ outbound = 2

====
